---- MODULE Spec2Model ----
(***************************************************************************)
(* Model of MunicipalHotspotRanker (src/utils/hot_spot.py): the incremental *)
(* clusterer (add_report), its TF-IDF vector space, the heat scorer, the   *)
(* queries and the bulk reload (load_from_database); and of the handlers   *)
(* of src/routers/web.py that share one ranker.                            *)
(*                                                                         *)
(* Numbers: sklearn computes in floating point.  The model computes the    *)
(* same formulas in fixed point: idf values and vector components are      *)
(* integers scaled by Unit, a cosine similarity is an integer scaled by    *)
(* Unit * Unit, and similarity_threshold is held in thousandths.           *)
(* Texts are sequences of one-character strings; report indices and        *)
(* cluster ids are 0-based as in the code, sequences are 1-based.          *)
(***************************************************************************)
EXTENDS Integers, Sequences, FiniteSets, TLC

VARIABLES
    report_texts,          \* self.report_texts: sequence of (trimmed) texts
    report_times,          \* self.report_times: sequence of timestamps
    report_cluster_map,    \* self.report_cluster_map: report index -> cluster id
    clusters,              \* self.clusters: dict in insertion order, as a
                           \*   sequence of [id, representative, count, reports]
    cluster_counter,       \* self.cluster_counter
    vectorizer,            \* self.vectorizer: fitted flag, vocabulary_, idf_
    tfidf_matrix,          \* self.tfidf_matrix: None or one row per fitted text
    similarity_threshold,  \* self.similarity_threshold, in thousandths
    last,                  \* the last call made on the engine and its outcome
    twin,                  \* a second engine instance (used by SpecTwin only)
    requests,              \* the HTTP requests in flight (src/routers/web.py):
                           \*   handler, position and locals of each coroutine
    running                \* the request whose coroutine holds the event loop

engineVars == <<report_texts, report_times, report_cluster_map, clusters,
                cluster_counter, vectorizer, tfidf_matrix, similarity_threshold>>
vars == <<report_texts, report_times, report_cluster_map, clusters,
          cluster_counter, vectorizer, tfidf_matrix, similarity_threshold,
          last, twin, requests, running>>
webVars == <<requests, running>>

---------------------------------------------------------------------------
(* Bounds of the model *)

MaxReports == 3      \* add_report calls accepted on one engine
MaxRecords == 2      \* rows the historical-data query returns
MaxTime == 1         \* timestamps are 0..MaxTime
MaxTwinReports == 4  \* add_report calls in the two-engine specification

Times == 0..MaxTime

(* None for an Optional[datetime], and for an Optional[int] cluster id *)
NoTime == -1
NoCluster == -1

(* the fixed-point scale standing for 1.0 *)
Unit == 1000

---------------------------------------------------------------------------
(* Texts *)

T_a == <<"a">>
T_b == <<"b">>
T_ab == <<"a", "b">>
T_ba == <<"b", "a">>
T_abcd == <<"a", "b", "c", "d">>
T_pad_ab == <<" ", "a", "b", " ">>
T_empty == <<>>
T_blank == <<" ">>

(* the texts callers submit in the one-engine specification *)
Texts == {T_a, T_b, T_ab, T_pad_ab, T_empty, T_blank}

(* the work_content values the historical-data query can return: the      *)
(* query filters out NULL and '' (hot_spot.py:325-326), not blank strings *)
RecordTexts == {T_a, T_ab, T_blank}

(* the texts fed to both engines in the two-engine specification *)
TwinTexts == {T_ba, T_ab, T_abcd}

(* similarity_threshold values an engine is constructed with, in       *)
(* thousandths: 0.0 and the default 0.6 (hot_spot.py:18); the two-engine *)
(* specification adds 0.99                                               *)
Thresholds == {0, 600}
TwinThresholds == Thresholds \cup {990}

IsSpace(ch) == ch = " "

(* str.strip() *)
RECURSIVE LStrip(_)
LStrip(t) ==
    IF t # <<>> /\ IsSpace(Head(t)) THEN LStrip(Tail(t)) ELSE t

RECURSIVE RStrip(_)
RStrip(t) ==
    IF t # <<>> /\ IsSpace(t[Len(t)]) THEN RStrip(SubSeq(t, 1, Len(t) - 1)) ELSE t

(* mutant: only leading whitespace is removed *)
StripLeadingOnly(t) == LStrip(t)

Strip(t) == RStrip(LStrip(t))

(* `not text or not text.strip()` *)
IsBlankText(t) == t = <<>> \/ Strip(t) = <<>>

---------------------------------------------------------------------------
(* The vector space: TfidfVectorizer(tokenizer=..., ngram_range=(1, 2)) *)

(* jieba.cut on the model's alphabet: a maximal run of letters is one word *)
(* and every whitespace character is a word of its own                     *)
RECURSIVE CutFrom(_, _, _)
CutFrom(t, i, word) ==
    IF i > Len(t)
    THEN IF word = <<>> THEN <<>> ELSE <<word>>
    ELSE IF IsSpace(t[i])
         THEN (IF word = <<>> THEN <<>> ELSE <<word>>)
              \o <<(<<t[i]>>)>> \o CutFrom(t, i + 1, <<>>)
         ELSE CutFrom(t, i + 1, Append(word, t[i]))

Cut(t) == CutFrom(t, 1, <<>>)

(* ' '.join(words) *)
RECURSIVE SpaceJoin(_)
SpaceJoin(words) ==
    IF words = <<>> THEN <<>>
    ELSE IF Len(words) = 1 THEN Head(words)
    ELSE Head(words) \o <<" ">> \o SpaceJoin(Tail(words))

(* self.tokenizer: it returns a string, not a list of words *)
Tokenizer(t) == SpaceJoin(Cut(t))

(* sklearn's word n-gram analyzer applied to what the tokenizer returns:  *)
(* the "tokens" it iterates over are the characters of that string, so    *)
(* the features are the single characters and the pairs of adjacent ones  *)
WordNGrams(s) ==
    [i \in 1..Len(s) |-> <<s[i]>>]
    \o [i \in 1..(Len(s) - 1) |-> <<s[i], s[i + 1]>>]

Analyze(t) == WordNGrams(Tokenizer(t))

(* the distinct elements of a sequence, in order of first occurrence *)
RECURSIVE Distinct(_, _, _)
Distinct(seq, i, acc) ==
    IF i > Len(seq) THEN acc
    ELSE Distinct(seq, i + 1,
                  IF \E k \in 1..Len(acc) : acc[k] = seq[i]
                  THEN acc ELSE Append(acc, seq[i]))

(* the concatenation of a sequence of sequences *)
RECURSIVE Concat(_)
Concat(seqs) == IF seqs = <<>> THEN <<>> ELSE Head(seqs) \o Concat(Tail(seqs))

Contains(tokens, f) == \E i \in 1..Len(tokens) : tokens[i] = f

(* term frequency of feature f in an analyzed document *)
TermCount(tokens, f) == Cardinality({i \in 1..Len(tokens) : tokens[i] = f})

(* round(Unit * ln(k)) for k = 1..8 *)
LnUnit == <<0, 693, 1099, 1386, 1609, 1792, 1946, 2079>>

(* smooth idf: ln((1 + n) / (1 + df)) + 1 *)
Idf(n, df) == LnUnit[1 + n] - LnUnit[1 + df] + Unit

RECURSIVE SqrtIter(_, _)
SqrtIter(n, x) ==
    LET y == (x + (n \div x)) \div 2
    IN  IF y >= x THEN x ELSE SqrtIter(n, y)

(* floor of the square root *)
ISqrt(n) == IF n <= 0 THEN 0 ELSE SqrtIter(n, n)

(* rows are sequences of weights, one per vocabulary column *)
RECURSIVE DotFrom(_, _, _)
DotFrom(x, y, k) ==
    IF k > Len(x) THEN 0 ELSE x[k] * y[k] + DotFrom(x, y, k + 1)

Dot(x, y) == DotFrom(x, y, 1)

(* L2 normalisation of a row; an all-zero row stays zero *)
Normalize(row) ==
    LET Scaled(norm) ==
            IF norm = 0 THEN row
            ELSE [k \in 1..Len(row) |->
                     (row[k] * Unit + (norm \div 2)) \div norm]
    IN  Scaled(ISqrt(Dot(row, row)))

NotFitted == [fitted |-> FALSE, vocabulary |-> <<>>, idf |-> <<>>]

(* vectorizer.fit(corpus): vocabulary_ (the features, one per column) *)
(* and idf_ (one value per column)                                    *)
Fit(corpus) ==
    LET df(docs, f) ==
            Cardinality({i \in 1..Len(corpus) : Contains(docs[i], f)})
        Fitted(docs, vocabulary) ==
            [fitted |-> TRUE,
             vocabulary |-> vocabulary,
             idf |-> [k \in 1..Len(vocabulary) |->
                         Idf(Len(corpus), df(docs, vocabulary[k]))]]
        Learn(docs) == Fitted(docs, Distinct(Concat(docs), 1, <<>>))
    IN  Learn([i \in 1..Len(corpus) |-> Analyze(corpus[i])])

(* vectorizer.transform([text])[0]: features outside the vocabulary are *)
(* dropped, the rest weighted tf * idf and L2-normalised                 *)
Transform(vec, t) ==
    LET tokens == Analyze(t)
    IN  Normalize([k \in 1..Len(vec.vocabulary) |->
                      TermCount(tokens, vec.vocabulary[k]) * vec.idf[k]])

(* the matrix vectorizer.fit_transform(corpus) returns *)
TransformAll(vec, corpus) == [i \in 1..Len(corpus) |-> Transform(vec, corpus[i])]

(* sklearn.metrics.pairwise.cosine_similarity(x, y)[0][0]: both rows are *)
(* normalised again, then multiplied                                     *)
CosineSimilarity(x, y) == Dot(Normalize(x), Normalize(y))

---------------------------------------------------------------------------
(* The engine.  An engine value `self` is a record of the instance's    *)
(* attributes; each method is an operator from the engine before the    *)
(* call to the engine after it.                                         *)

NoMatrix == [none |-> TRUE, rows |-> <<>>]
Matrix(rows) == [none |-> FALSE, rows |-> rows]

(* __init__ without a db_session *)
NewEngine(threshold) ==
    [report_texts |-> <<>>,
     report_times |-> <<>>,
     report_cluster_map |-> <<>>,
     clusters |-> <<>>,
     cluster_counter |-> 0,
     vectorizer |-> NotFitted,
     tfidf_matrix |-> NoMatrix,
     similarity_threshold |-> threshold]

(* `cluster_id in self.clusters` and self.clusters[cluster_id] *)
ClusterIds(self) == {self.clusters[k].id : k \in 1..Len(self.clusters)}
ClusterPos(self, cluster_id) ==
    CHOOSE k \in 1..Len(self.clusters) : self.clusters[k].id = cluster_id

(* self.clusters[cluster_id] = info: a new key goes to the end of the dict, *)
(* an existing key keeps its place                                         *)
SetCluster(cs, cluster_id, info) ==
    IF \E k \in 1..Len(cs) : cs[k].id = cluster_id
    THEN [k \in 1..Len(cs) |-> IF cs[k].id = cluster_id THEN info ELSE cs[k]]
    ELSE Append(cs, info)

(* self.report_cluster_map[report_idx] = cluster_id *)
SetMap(m, report_idx, cluster_id) ==
    [i \in (DOMAIN m) \cup {report_idx} |->
        IF i = report_idx THEN cluster_id ELSE m[i]]

_create_new_cluster(self, report_idx, text) ==
    LET cluster_id == self.cluster_counter
    IN  [self EXCEPT
            !.cluster_counter = @ + 1,
            !.report_cluster_map = SetMap(@, report_idx, cluster_id),
            !.clusters = SetCluster(@, cluster_id,
                            [id |-> cluster_id,
                             representative |-> text,
                             count |-> 1,
                             reports |-> <<report_idx>>])]

(* mutant: the report is counted but never appended to the member list *)
AddToClusterNoAppend(self, report_idx, cluster_id) ==
    LET k == ClusterPos(self, cluster_id)
    IN  [self EXCEPT
            !.report_cluster_map = SetMap(@, report_idx, cluster_id),
            !.clusters[k].count = @ + 1]

(* mutant: the newest member becomes the representative *)
AddToClusterNewRepresentative(self, report_idx, cluster_id) ==
    LET k == ClusterPos(self, cluster_id)
    IN  [self EXCEPT
            !.report_cluster_map = SetMap(@, report_idx, cluster_id),
            !.clusters[k].count = @ + 1,
            !.clusters[k].reports = Append(@, report_idx),
            !.clusters[k].representative = self.report_texts[report_idx + 1]]

(* mutant: the report joins the member list, the count is left as it was *)
AddToClusterNoCount(self, report_idx, cluster_id) ==
    LET k == ClusterPos(self, cluster_id)
    IN  [self EXCEPT
            !.report_cluster_map = SetMap(@, report_idx, cluster_id),
            !.clusters[k].reports = Append(@, report_idx)]

_add_to_cluster(self, report_idx, cluster_id) ==
    LET k == ClusterPos(self, cluster_id)
    IN  [self EXCEPT
            !.report_cluster_map = SetMap(@, report_idx, cluster_id),
            !.clusters[k].count = @ + 1,
            !.clusters[k].reports = Append(@, report_idx)]

(* mutant: the space is fit on the corpus without its newest report *)
RebuildVectorizerBeforeLast(self) ==
    IF Len(self.report_texts) > 1
    THEN LET stale == SubSeq(self.report_texts, 1, Len(self.report_texts) - 1)
             Refit(vec) ==
                 [self EXCEPT
                     !.vectorizer = vec,
                     !.tfidf_matrix = Matrix(TransformAll(vec, stale))]
         IN  Refit(Fit(stale))
    ELSE self

_rebuild_vectorizer(self) ==
    IF Len(self.report_texts) > 0
    THEN LET Refit(vec) ==
                 [self EXCEPT
                     !.vectorizer = vec,
                     !.tfidf_matrix =
                         Matrix(TransformAll(vec, self.report_texts))]
         IN  Refit(Fit(self.report_texts))
    ELSE self

(* mutant: `similarity >= best_similarity`, so a later cluster wins a tie *)
RECURSIVE ScanClustersLastWins(_, _, _, _)
ScanClustersLastWins(self, new_vector, k, best) ==
    IF k > Len(self.clusters) THEN best
    ELSE LET representative_idx == self.clusters[k].reports[1]
             Better(similarity) ==
                 IF similarity >= best.similarity
                 THEN [similarity |-> similarity,
                       cluster_id |-> self.clusters[k].id]
                 ELSE best
         IN  ScanClustersLastWins(self, new_vector, k + 1,
                 IF representative_idx < Len(self.tfidf_matrix.rows)
                 THEN Better(CosineSimilarity(
                          new_vector,
                          self.tfidf_matrix.rows[representative_idx + 1]))
                 ELSE best)

(* mutant: a cluster is scored by its most similar member, not by its *)
(* representative                                                     *)
RECURSIVE ScanClustersAllMembers(_, _, _, _)
ScanClustersAllMembers(self, new_vector, k, best) ==
    IF k > Len(self.clusters) THEN best
    ELSE LET sims == {CosineSimilarity(new_vector,
                          self.tfidf_matrix.rows[self.clusters[k].reports[j] + 1]) :
                          j \in 1..Len(self.clusters[k].reports)}
             similarity == CHOOSE m \in sims : \A x \in sims : m >= x
         IN  ScanClustersAllMembers(self, new_vector, k + 1,
                 IF similarity > best.similarity
                 THEN [similarity |-> similarity,
                       cluster_id |-> self.clusters[k].id]
                 ELSE best)

(* the loop of _find_matching_cluster over self.clusters.items(), from  *)
(* position k on, carrying (best_similarity, best_cluster_id)           *)
RECURSIVE ScanClusters(_, _, _, _)
ScanClusters(self, new_vector, k, best) ==
    IF k > Len(self.clusters) THEN best
    ELSE LET representative_idx == self.clusters[k].reports[1]
             Better(similarity) ==
                 IF similarity > best.similarity
                 THEN [similarity |-> similarity,
                       cluster_id |-> self.clusters[k].id]
                 ELSE best
         IN  ScanClusters(self, new_vector, k + 1,
                 IF representative_idx < Len(self.tfidf_matrix.rows)
                 THEN Better(CosineSimilarity(
                          new_vector,
                          self.tfidf_matrix.rows[representative_idx + 1]))
                 ELSE best)

BestMatch(self, text) ==
    ScanClusters(self, Transform(self.vectorizer, text), 1,
                 [similarity |-> 0, cluster_id |-> NoCluster])

(* mutant: when transform raises, the first cluster is taken as the match *)
FindMatchingClusterFallsBack(self, text) ==
    IF self.clusters = <<>> \/ self.tfidf_matrix.none
       \/ Len(self.tfidf_matrix.rows) = 0
    THEN NoCluster
    ELSE IF ~self.vectorizer.fitted
    THEN self.clusters[1].id
    ELSE LET Accept(best) ==
                 IF best.similarity >= self.similarity_threshold * Unit
                 THEN best.cluster_id
                 ELSE NoCluster
         IN  Accept(BestMatch(self, text))

(* mutant: when transform raises, the vector space is rebuilt over the *)
(* corpus, which already holds the new text, and the comparison is     *)
(* made once more                                                      *)
FindMatchingClusterRetries(self, text) ==
    IF self.clusters = <<>> \/ self.tfidf_matrix.none
       \/ Len(self.tfidf_matrix.rows) = 0
    THEN NoCluster
    ELSE LET Accept(best) ==
                 IF best.similarity >= self.similarity_threshold * Unit
                 THEN best.cluster_id
                 ELSE NoCluster
         IN  IF ~self.vectorizer.fitted
             THEN Accept(BestMatch(_rebuild_vectorizer(self), text))
             ELSE Accept(BestMatch(self, text))

(* mutant: the threshold test is reversed *)
FindMatchingClusterReversed(self, text) ==
    IF self.clusters = <<>> \/ self.tfidf_matrix.none
       \/ Len(self.tfidf_matrix.rows) = 0
    THEN NoCluster
    ELSE IF ~self.vectorizer.fitted
    THEN NoCluster
    ELSE LET Accept(best) ==
                 IF best.similarity <= self.similarity_threshold * Unit
                 THEN best.cluster_id
                 ELSE NoCluster
         IN  Accept(BestMatch(self, text))

_find_matching_cluster(self, text) ==
    IF self.clusters = <<>> \/ self.tfidf_matrix.none
       \/ Len(self.tfidf_matrix.rows) = 0
    THEN NoCluster
    ELSE IF ~self.vectorizer.fitted
    THEN NoCluster     \* transform raised: the bare except returns None
    ELSE LET Accept(best) ==
                 IF best.similarity >= self.similarity_threshold * Unit
                 THEN best.cluster_id
                 ELSE NoCluster
         IN  Accept(BestMatch(self, text))

(* lines 63-65: the report and its time are stored *)
StoreReport(self, stripped, time) ==
    [self EXCEPT !.report_texts = Append(@, stripped),
                 !.report_times = Append(@, time)]

(* lines 67-88: the stored report is given its cluster and the vector *)
(* space is rebuilt                                                   *)
AssignReport(self, report_idx, stripped) ==
    LET (* lines 68-70: the first report founds cluster 0 *)
        First(s) ==
            LET FitTransform(vec) ==
                    [_create_new_cluster(s, report_idx, stripped) EXCEPT
                        !.vectorizer = vec,
                        !.tfidf_matrix =
                            Matrix(TransformAll(vec, <<stripped>>))]
            IN  FitTransform(Fit(<<stripped>>))
        (* lines 74-75: the lazy rebuild *)
        Ready(s) ==
            IF s.tfidf_matrix.none \/ Len(s.tfidf_matrix.rows) = 0
            THEN _rebuild_vectorizer(s) ELSE s
        (* lines 80-85 *)
        Assigned(s, matched_cluster_id) ==
            IF matched_cluster_id = NoCluster
            THEN _create_new_cluster(s, report_idx, stripped)
            ELSE _add_to_cluster(s, report_idx, matched_cluster_id)
        (* lines 78-88 *)
        Later(s) ==
            _rebuild_vectorizer(
                Assigned(s, _find_matching_cluster(s, stripped)))
    IN  IF report_idx = 0 THEN First(self) ELSE Later(Ready(self))

(* add_report from `text = text.strip()` on *)
AddValidReport(self, text, report_time, now) ==
    LET time == IF report_time = NoTime THEN now ELSE report_time
        report_idx == Len(self.report_texts)
        Run(stripped) ==
            AssignReport(StoreReport(self, stripped, time),
                         report_idx, stripped)
    IN  [raised |-> FALSE,
         value |-> report_idx,
         self |-> Run(Strip(text))]

(* mutant: only `not text` is tested, a whitespace-only text is accepted *)
AddReportEmptyOnly(self, text, report_time, now) ==
    IF text = <<>>
    THEN [raised |-> TRUE, value |-> NoCluster, self |-> self]
    ELSE AddValidReport(self, text, report_time, now)

(* add_report: [raised, value, self]; raised means ValueError *)
add_report(self, text, report_time, now) ==
    IF IsBlankText(text)
    THEN [raised |-> TRUE, value |-> NoCluster, self |-> self]
    ELSE AddValidReport(self, text, report_time, now)

---------------------------------------------------------------------------
(* The heat scorer.  Times are counted in ticks of half an hour and heat  *)
(* in twentieths, so that 0.1 per hour is one twentieth per tick.         *)

TicksPerHour == 2
HeatUnit == 20

(* cluster.get('reports', []) of an existing cluster *)
ReportIndices(self, cluster_id) == self.clusters[ClusterPos(self, cluster_id)].reports

(* mutant: the window is closed at now, members stamped later are left out *)
RecentCountTrailingWindow(self, cluster_id, now) ==
    LET one_hour_ago == now - TicksPerHour
        report_indices == ReportIndices(self, cluster_id)
    IN  Cardinality({j \in 1..Len(report_indices) :
            /\ report_indices[j] < Len(self.report_times)
            /\ self.report_times[report_indices[j] + 1] >= one_hour_ago
            /\ self.report_times[report_indices[j] + 1] <= now})

(* lines 128-132: the members stamped at or after now - 1h *)
RecentCount(self, cluster_id, now) ==
    LET one_hour_ago == now - TicksPerHour
        report_indices == ReportIndices(self, cluster_id)
    IN  Cardinality({j \in 1..Len(report_indices) :
            /\ report_indices[j] < Len(self.report_times)
            /\ self.report_times[report_indices[j] + 1] >= one_hour_ago})

(* lines 133-135 *)
ConcentratedBonus(recent_count) ==
    IF recent_count > 3 THEN (recent_count - 3) * HeatUnit ELSE 0

(* lines 139-144: NoTime stands for None *)
RECURSIVE EarliestFrom(_, _, _, _)
EarliestFrom(self, report_indices, j, earliest_time) ==
    IF j > Len(report_indices) THEN earliest_time
    ELSE EarliestFrom(self, report_indices, j + 1,
             IF report_indices[j] < Len(self.report_times)
                /\ (earliest_time = NoTime
                    \/ self.report_times[report_indices[j] + 1] < earliest_time)
             THEN self.report_times[report_indices[j] + 1]
             ELSE earliest_time)

EarliestTime(self, cluster_id) ==
    EarliestFrom(self, ReportIndices(self, cluster_id), 1, NoTime)

(* lines 145-149: hours_diff * 0.1, with hours_diff floored at 0 *)
TimeDecay(self, cluster_id, now) ==
    LET Decay(earliest_time) ==
            IF earliest_time = NoTime THEN 0
            ELSE IF now - earliest_time < 0 THEN 0
            ELSE ((now - earliest_time) * HeatUnit) \div (10 * TicksPerHour)
    IN  Decay(EarliestTime(self, cluster_id))

(* mutant: the floor at zero is missing *)
ComputeHeatNoFloor(self, cluster_id, now) ==
    IF cluster_id \notin ClusterIds(self) THEN 0
    ELSE 2 * HeatUnit * Len(ReportIndices(self, cluster_id))
         + ConcentratedBonus(RecentCount(self, cluster_id, now))
         - TimeDecay(self, cluster_id, now)

(* mutant: the decay is anchored at the newest member *)
ComputeHeatNewestAnchor(self, cluster_id, now) ==
    IF cluster_id \notin ClusterIds(self) THEN 0
    ELSE LET Floor(heat) == IF heat < 0 THEN 0 ELSE heat
             report_indices == ReportIndices(self, cluster_id)
             newest == self.report_times[report_indices[Len(report_indices)] + 1]
         IN  Floor(2 * HeatUnit * Len(report_indices)
                   + ConcentratedBonus(RecentCount(self, cluster_id, now))
                   - (IF now < newest THEN 0
                      ELSE ((now - newest) * HeatUnit) \div (10 * TicksPerHour)))

(* mutant: no concentration bonus is added *)
ComputeHeatNoBonus(self, cluster_id, now) ==
    IF cluster_id \notin ClusterIds(self) THEN 0
    ELSE LET Floor(heat) == IF heat < 0 THEN 0 ELSE heat
         IN  Floor(2 * HeatUnit * Len(ReportIndices(self, cluster_id))
                   - TimeDecay(self, cluster_id, now))

compute_heat_for_cluster(self, cluster_id, now) ==
    IF cluster_id \notin ClusterIds(self) THEN 0
    ELSE LET Floor(heat) == IF heat < 0 THEN 0 ELSE heat
         IN  Floor(2 * HeatUnit * Len(ReportIndices(self, cluster_id))
                   + ConcentratedBonus(RecentCount(self, cluster_id, now))
                   - TimeDecay(self, cluster_id, now))

(* seq[:top_k] of Python: a negative top_k counts from the end *)
Slice(seq, top_k) ==
    IF top_k >= Len(seq) THEN seq
    ELSE IF top_k >= 0 THEN SubSeq(seq, 1, top_k)
    ELSE IF Len(seq) + top_k > 0 THEN SubSeq(seq, 1, Len(seq) + top_k)
    ELSE <<>>

(* sorted(ranked, key=heat, reverse=True): stable, entries of equal heat *)
(* keep the order they were appended in                                  *)
RECURSIVE SortedByHeat(_, _, _)
SortedByHeat(ranked, i, acc) ==
    IF i > Len(ranked) THEN acc
    ELSE LET Insert(n) ==
                 SubSeq(acc, 1, n) \o <<ranked[i]>> \o SubSeq(acc, n + 1, Len(acc))
         IN  SortedByHeat(ranked, i + 1,
                 Insert(Cardinality({k \in 1..Len(acc) :
                                        acc[k].heat >= ranked[i].heat})))

(* lines 255-259: one entry per cluster, in the order of self.clusters *)
Ranked(self, now) ==
    [k \in 1..Len(self.clusters) |->
        [representative |-> self.clusters[k].representative,
         heat |-> compute_heat_for_cluster(self, self.clusters[k].id, now),
         count |-> self.clusters[k].count,
         cluster_id |-> self.clusters[k].id]]

(* mutant: the entries are not sorted *)
RankingUnsorted(self, top_k, now) ==
    IF self.clusters = <<>> THEN <<>>
    ELSE Slice(Ranked(self, now), top_k)

(* mutant: the entries are truncated before they are sorted *)
RankingTruncatesFirst(self, top_k, now) ==
    IF self.clusters = <<>> THEN <<>>
    ELSE SortedByHeat(Slice(Ranked(self, now), top_k), 1, <<>>)

get_hotspot_ranking(self, top_k, now) ==
    IF self.clusters = <<>> THEN <<>>
    ELSE Slice(SortedByHeat(Ranked(self, now), 1, <<>>), top_k)

(* np.argsort(similarities): the 0-based indices in ascending order of  *)
(* similarity, equal similarities in ascending order of index           *)
RECURSIVE ArgSort(_, _, _)
ArgSort(similarities, i, acc) ==
    IF i > Len(similarities) THEN acc
    ELSE LET Insert(n) ==
                 SubSeq(acc, 1, n) \o <<i - 1>> \o SubSeq(acc, n + 1, Len(acc))
         IN  ArgSort(similarities, i + 1,
                 Insert(Cardinality({k \in 1..Len(acc) :
                            similarities[acc[k] + 1] <= similarities[i]})))

(* seq[::-1] *)
Reversed(seq) == [k \in 1..Len(seq) |-> seq[Len(seq) + 1 - k]]

(* line 221: the similarity of the query to every row of the matrix *)
Similarities(self, text) ==
    LET Against(query_vector) ==
            [i \in 1..Len(self.tfidf_matrix.rows) |->
                CosineSimilarity(query_vector, self.tfidf_matrix.rows[i])]
    IN  Against(Transform(self.vectorizer, text))

(* lines 224-225: the top_k indices, then the threshold filter *)
SimilarResults(self, similarities, top_indices) ==
    LET Qualifies(i) ==
            similarities[i + 1] >= self.similarity_threshold * Unit
        picked == SelectSeq(top_indices, Qualifies)
    IN  [k \in 1..Len(picked) |->
            [report |-> self.report_texts[picked[k] + 1],
             similarity |-> similarities[picked[k] + 1]]]

(* mutant: the [::-1] is missing, the least similar reports come first *)
FindSimilarAscending(self, text, top_k) ==
    IF self.report_texts = <<>> \/ self.tfidf_matrix.none
    THEN [raised |-> FALSE, value |-> <<>>]
    ELSE IF ~self.vectorizer.fitted
    THEN [raised |-> TRUE, value |-> <<>>]
    ELSE LET Top(similarities) ==
                 SimilarResults(self, similarities,
                     Slice(ArgSort(similarities, 1, <<>>), top_k))
         IN  [raised |-> FALSE, value |-> Top(Similarities(self, text))]

(* mutant: the empty-corpus guard is missing, so transform or *)
(* cosine_similarity raises on an engine without a matrix     *)
FindSimilarUnguarded(self, text, top_k) ==
    IF ~self.vectorizer.fitted \/ self.tfidf_matrix.none
    THEN [raised |-> TRUE, value |-> <<>>]
    ELSE LET Top(similarities) ==
                 SimilarResults(self, similarities,
                     Slice(Reversed(ArgSort(similarities, 1, <<>>)), top_k))
         IN  [raised |-> FALSE, value |-> Top(Similarities(self, text))]

(* find_similar_reports: [raised, value]; transform is not guarded here, *)
(* raised means its NotFittedError reaches the caller                   *)
find_similar_reports(self, text, top_k) ==
    IF self.report_texts = <<>> \/ self.tfidf_matrix.none
    THEN [raised |-> FALSE, value |-> <<>>]
    ELSE IF ~self.vectorizer.fitted
    THEN [raised |-> TRUE, value |-> <<>>]
    ELSE LET Top(similarities) ==
                 SimilarResults(self, similarities,
                     Slice(Reversed(ArgSort(similarities, 1, <<>>)), top_k))
         IN  [raised |-> FALSE, value |-> Top(Similarities(self, text))]

(* str(cluster_id): the decimal digits of a natural number *)
Digits == <<"0", "1", "2", "3", "4", "5", "6", "7", "8", "9">>

RECURSIVE Str(_)
Str(n) ==
    IF n < 10 THEN <<Digits[n + 1]>>
    ELSE Str(n \div 10) \o <<Digits[(n % 10) + 1]>>

(* [self.report_texts[idx] for idx in reports] *)
TextsOf(self, reports) ==
    [j \in 1..Len(reports) |-> self.report_texts[reports[j] + 1]]

(* get_clusters: the items of the returned dict, in insertion order *)
get_clusters(self) ==
    [k \in 1..Len(self.clusters) |->
        [key |-> Str(self.clusters[k].id),
         representative |-> self.clusters[k].representative,
         count |-> self.clusters[k].count,
         reports |-> TextsOf(self, self.clusters[k].reports)]]

get_cluster_reports(self, cluster_id) ==
    IF cluster_id \notin ClusterIds(self) THEN <<>>
    ELSE TextsOf(self, ReportIndices(self, cluster_id))

(* the average is a float: it is counted in sixtieths, which is exact *)
(* for every divisor up to six                                        *)
StatUnit == 60

(* mutant: the division is not guarded, ZeroDivisionError on no clusters *)
GetStatisticsUnguarded(self) ==
    IF Len(self.clusters) = 0
    THEN [raised |-> TRUE,
          value |-> [total_reports |-> 0, total_clusters |-> 0,
                     avg_reports_per_cluster |-> 0]]
    ELSE [raised |-> FALSE,
          value |-> [total_reports |-> Len(self.report_texts),
                     total_clusters |-> Len(self.clusters),
                     avg_reports_per_cluster |->
                         (Len(self.report_texts) * StatUnit)
                             \div Len(self.clusters)]]

(* get_statistics: [raised, value] *)
get_statistics(self) ==
    [raised |-> FALSE,
     value |-> [total_reports |-> Len(self.report_texts),
                total_clusters |-> Len(self.clusters),
                avg_reports_per_cluster |->
                    IF self.clusters # <<>>
                    THEN (Len(self.report_texts) * StatUnit)
                             \div Len(self.clusters)
                    ELSE 0]]

(* add_report when self.vectorizer.transform raises at line 172: the    *)
(* vectorizer answers the call as one that was never fitted does.  The  *)
(* TfidfVectorizer drops features outside its vocabulary and does not   *)
(* raise for them; what it raises otherwise is the environment's choice *)
AddReportTransformRaises(self, text, report_time, now) ==
    add_report([self EXCEPT !.vectorizer = NotFitted], text, report_time, now)

(* a row of the work_order_number table as the query returns it *)
Records == [work_content : RecordTexts, report_time : Times]

(* the query orders by report_time descending *)
IsTimeDescending(rows) ==
    \A i \in 1..(Len(rows) - 1) : rows[i].report_time >= rows[i + 1].report_time

RecordSeqs ==
    {rows \in UNION {[1..n -> Records] : n \in 0..MaxRecords} :
        IsTimeDescending(rows)}

(* the `for report in user_reports` loop of load_from_database, from row i *)
RECURSIVE LoadLoop(_, _, _)
LoadLoop(self, rows, i) ==
    IF i > Len(rows) THEN self
    ELSE LET Continue(r) ==
                 IF r.raised
                 THEN r.self    \* the exception leaves the loop for the handler
                 ELSE LoadLoop(r.self, rows, i + 1)
         IN  Continue(
                 IF IsBlankText(rows[i].work_content)
                 THEN [raised |-> FALSE, value |-> NoCluster, self |-> self]
                 ELSE add_report(self, Strip(rows[i].work_content),
                                 rows[i].report_time, rows[i].report_time))

(* mutant: cluster_counter is not reset *)
LoadKeepsCounter(self, provider) ==
    IF provider.fails
    THEN [raised |-> FALSE, self |-> self]
    ELSE LET cleared ==
                 [self EXCEPT !.report_texts = <<>>,
                              !.report_times = <<>>,
                              !.report_cluster_map = <<>>,
                              !.clusters = <<>>,
                              !.tfidf_matrix = NoMatrix]
         IN  [raised |-> FALSE,
              self |-> IF provider.rows = <<>> THEN cleared
                       ELSE LoadLoop(cleared, provider.rows, 1)]

(* mutant: the collections are not cleared before the rows are replayed *)
LoadWithoutClearing(self, provider) ==
    IF provider.fails
    THEN [raised |-> FALSE, self |-> self]
    ELSE [raised |-> FALSE,
          self |-> IF provider.rows = <<>> THEN self
                   ELSE LoadLoop(self, provider.rows, 1)]

(* load_from_database: provider.fails says the query raises; the handler *)
(* at the end prints the exception and the method returns normally       *)
load_from_database(self, provider) ==
    IF provider.fails
    THEN [raised |-> FALSE, self |-> self]
    ELSE LET cleared ==
                 [self EXCEPT !.report_texts = <<>>,
                              !.report_times = <<>>,
                              !.report_cluster_map = <<>>,
                              !.clusters = <<>>,
                              !.cluster_counter = 0,
                              !.tfidf_matrix = NoMatrix]
         IN  [raised |-> FALSE,
              self |-> IF provider.rows = <<>> THEN cleared
                       ELSE LoadLoop(cleared, provider.rows, 1)]

reload_from_database(self, provider) == load_from_database(self, provider)

---------------------------------------------------------------------------
(* The state machine *)

Self ==
    [report_texts |-> report_texts,
     report_times |-> report_times,
     report_cluster_map |-> report_cluster_map,
     clusters |-> clusters,
     cluster_counter |-> cluster_counter,
     vectorizer |-> vectorizer,
     tfidf_matrix |-> tfidf_matrix,
     similarity_threshold |-> similarity_threshold]

(* the engine's attributes become those of e *)
Becomes(e) ==
    /\ report_texts' = e.report_texts
    /\ report_times' = e.report_times
    /\ report_cluster_map' = e.report_cluster_map
    /\ clusters' = e.clusters
    /\ cluster_counter' = e.cluster_counter
    /\ vectorizer' = e.vectorizer
    /\ tfidf_matrix' = e.tfidf_matrix
    /\ similarity_threshold' = e.similarity_threshold

(* no request, and the response of a step that sends none *)
NoRequest == 0
NoResponse ==
    [status_code |-> 0, ranking |-> <<>>,
     statistics |-> [total_reports |-> 0, total_clusters |-> 0,
                     avg_reports_per_cluster |-> 0],
     report_idx |-> NoCluster, broadcasts |-> 0]

NoCall ==
    [op |-> "init", text |-> <<>>, report_time |-> NoTime, rows |-> <<>>,
     provider_failed |-> FALSE, repeated |-> FALSE,
     raised |-> FALSE, value |-> NoCluster,
     cluster_id |-> NoCluster, now |-> NoTime, top_k |-> 0,
     heat |-> 0, recent_count |-> 0, ranking |-> <<>>, similar |-> <<>>,
     transform_raised |-> FALSE,
     statistics |-> [total_reports |-> 0, total_clusters |-> 0,
                     avg_reports_per_cluster |-> 0],
     cluster_items |-> <<>>, cluster_reports |-> <<>>,
     request |-> NoRequest, response |-> NoResponse]

(* the requests the application can have in flight at once *)
MaxRequests == 2

RequestIds == 1..MaxRequests

(* a request slot with no request in it *)
Idle ==
    [handler |-> "none", pc |-> "idle", user_content |-> <<>>, top_k |-> 0,
     rows |-> <<>>, report_idx |-> NoCluster]

InitEngine(threshold) ==
    LET e == NewEngine(threshold)
    IN  /\ report_texts = e.report_texts
        /\ report_times = e.report_times
        /\ report_cluster_map = e.report_cluster_map
        /\ clusters = e.clusters
        /\ cluster_counter = e.cluster_counter
        /\ vectorizer = e.vectorizer
        /\ tfidf_matrix = e.tfidf_matrix
        /\ similarity_threshold = e.similarity_threshold
        /\ last = NoCall
        /\ requests = [r \in RequestIds |-> Idle]
        /\ running = NoRequest

Init ==
    \E threshold \in Thresholds :
        /\ InitEngine(threshold)
        /\ twin = NewEngine(threshold)

(* a request handler runs add_report(text) with no report_time, as      *)
(* submit_issue does (web.py:119); now is what datetime.now() returns   *)
AddReport(text, now) ==
    /\ IsBlankText(text) \/ Len(report_texts) < MaxReports
    /\ \E r \in {add_report(Self, text, NoTime, now)} :
           /\ Becomes(r.self)
           /\ last' = [NoCall EXCEPT !.op = "add_report",
                                     !.text = text,
                                     !.report_time = NoTime,
                                     !.now = now,
                                     !.raised = r.raised,
                                     !.value = r.value]
    /\ UNCHANGED <<twin, webVars>>

(* a caller runs load_from_database / reload_from_database; repeated   *)
(* records that the call before it was a load that read the same rows  *)
LoadFromDatabase(provider) ==
    /\ \E r \in {reload_from_database(Self, provider)} :
           /\ Becomes(r.self)
           /\ last' = [NoCall EXCEPT !.op = "load_from_database",
                                     !.rows = provider.rows,
                                     !.provider_failed = provider.fails,
                                     !.repeated =
                                         /\ last.op = "load_from_database"
                                         /\ ~last.provider_failed
                                         /\ ~provider.fails
                                         /\ last.rows = provider.rows,
                                     !.raised = r.raised]
    /\ UNCHANGED <<twin, webVars>>

Next ==
    \/ \E text \in Texts, now \in Times : AddReport(text, now)
    \/ \E rows \in RecordSeqs :
           LoadFromDatabase([fails |-> FALSE, rows |-> rows])
    \/ LoadFromDatabase([fails |-> TRUE, rows |-> <<>>])

Spec == Init /\ [][Next]_vars

(* Two engines that differ only in similarity_threshold, fed the same *)
(* add_report calls                                                   *)
InitTwin ==
    \E lo \in TwinThresholds, hi \in TwinThresholds :
        /\ lo <= hi
        /\ InitEngine(lo)
        /\ twin = NewEngine(hi)

AddReportBoth(text) ==
    /\ Len(report_texts) < MaxTwinReports
    /\ \E r \in {add_report(Self, text, 0, 0)},
          t \in {add_report(twin, text, 0, 0)} :
           /\ Becomes(r.self)
           /\ twin' = t.self
           /\ last' = [NoCall EXCEPT !.op = "add_report",
                                     !.text = text,
                                     !.report_time = 0,
                                     !.raised = r.raised,
                                     !.value = r.value]
    /\ UNCHANGED webVars

NextTwin == \E text \in TwinTexts : AddReportBoth(text)

SpecTwin == InitTwin /\ [][NextTwin]_vars

(* The engine when transform may raise inside _find_matching_cluster. *)
(* It is called, and so can raise, once a report and a matrix exist.  *)
MissTexts == {T_a, T_b, T_ab}

AddReportMiss(text, now) ==
    /\ ~IsBlankText(text)
    /\ Len(report_texts) >= 1
    /\ Len(report_texts) < MaxReports
    /\ \E r \in {AddReportTransformRaises(Self, text, NoTime, now)} :
           /\ Becomes(r.self)
           /\ last' = [NoCall EXCEPT !.op = "add_report",
                                     !.text = text,
                                     !.report_time = NoTime,
                                     !.raised = r.raised,
                                     !.value = r.value,
                                     !.transform_raised = TRUE]
    /\ UNCHANGED <<twin, webVars>>

NextMiss ==
    \/ \E text \in MissTexts, now \in Times : AddReport(text, now)
    \/ \E text \in MissTexts, now \in Times : AddReportMiss(text, now)

SpecMiss == Init /\ [][NextMiss]_vars

(* the local recent_count of compute_heat_for_cluster, kept for the record *)
(* of the call                                                            *)
RecentCountOf(self, cluster_id, now) ==
    IF cluster_id \in ClusterIds(self)
    THEN RecentCount(self, cluster_id, now) ELSE 0

(* The engine with its queries: reports carry explicit timestamps, and *)
(* the heat, the ranking and the similar reports are asked for at any  *)
(* reference time                                                      *)
MaxQueryReports == 4
MaxTopK == 2
MaxClusterId == 2

StampedTexts == {T_a, T_b}
ReportTimes == {0, 3}
Nows == {0, 2, 3, 50}
TopKs == 0..MaxTopK
SimilarTexts == {T_a, T_ab}
QueryRecordSeqs == {<<>>, <<[work_content |-> T_a, report_time |-> 0]>>}

InitQuery ==
    \E threshold \in Thresholds :
        /\ InitEngine(threshold)
        /\ twin = NewEngine(threshold)

AddReportAt(text, report_time) ==
    /\ Len(report_texts) < MaxQueryReports
    /\ \E r \in {add_report(Self, text, report_time, report_time)} :
           /\ Becomes(r.self)
           /\ last' = [NoCall EXCEPT !.op = "add_report",
                                     !.text = text,
                                     !.report_time = report_time,
                                     !.raised = r.raised,
                                     !.value = r.value]
    /\ UNCHANGED <<twin, webVars>>

ComputeHeat(cluster_id, now) ==
    /\ last' = [NoCall EXCEPT
                    !.op = "compute_heat_for_cluster",
                    !.cluster_id = cluster_id,
                    !.now = now,
                    !.recent_count = RecentCountOf(Self, cluster_id, now),
                    !.heat = compute_heat_for_cluster(Self, cluster_id, now)]
    /\ UNCHANGED <<engineVars, twin, webVars>>

(* mutant: the ranking sorts self.clusters itself by heat *)
GetHotspotRankingSortsInPlace(top_k, now) ==
    /\ \E sorted \in {SortedByHeat(Ranked(Self, now), 1, <<>>)} :
           /\ clusters' = [k \in 1..Len(clusters) |->
                              clusters[ClusterPos(Self, sorted[k].cluster_id)]]
           /\ last' = [NoCall EXCEPT !.op = "get_hotspot_ranking",
                                     !.top_k = top_k,
                                     !.now = now,
                                     !.ranking = Slice(sorted, top_k)]
    /\ UNCHANGED <<report_texts, report_times, report_cluster_map,
                   cluster_counter, vectorizer, tfidf_matrix,
                   similarity_threshold, twin, webVars>>

GetHotspotRanking(top_k, now) ==
    /\ last' = [NoCall EXCEPT
                    !.op = "get_hotspot_ranking",
                    !.top_k = top_k,
                    !.now = now,
                    !.ranking = get_hotspot_ranking(Self, top_k, now)]
    /\ UNCHANGED <<engineVars, twin, webVars>>

FindSimilarReports(text, top_k) ==
    /\ \E r \in {find_similar_reports(Self, text, top_k)} :
           last' = [NoCall EXCEPT !.op = "find_similar_reports",
                                  !.text = text,
                                  !.top_k = top_k,
                                  !.raised = r.raised,
                                  !.similar = r.value]
    /\ UNCHANGED <<engineVars, twin, webVars>>

GetStatistics ==
    /\ \E r \in {get_statistics(Self)} :
           last' = [NoCall EXCEPT !.op = "get_statistics",
                                  !.raised = r.raised,
                                  !.statistics = r.value]
    /\ UNCHANGED <<engineVars, twin, webVars>>

GetClusters ==
    /\ last' = [NoCall EXCEPT !.op = "get_clusters",
                              !.cluster_items = get_clusters(Self)]
    /\ UNCHANGED <<engineVars, twin, webVars>>

GetClusterReports(cluster_id) ==
    /\ last' = [NoCall EXCEPT
                    !.op = "get_cluster_reports",
                    !.cluster_id = cluster_id,
                    !.cluster_reports = get_cluster_reports(Self, cluster_id)]
    /\ UNCHANGED <<engineVars, twin, webVars>>

NextQuery ==
    \/ \E text \in StampedTexts, report_time \in ReportTimes :
           AddReportAt(text, report_time)
    \/ GetStatistics
    \/ GetClusters
    \/ \E cluster_id \in 0..MaxClusterId : GetClusterReports(cluster_id)
    \/ \E rows \in QueryRecordSeqs :
           LoadFromDatabase([fails |-> FALSE, rows |-> rows])
    \/ \E cluster_id \in 0..MaxClusterId, now \in Nows :
           ComputeHeat(cluster_id, now)
    \/ \E top_k \in TopKs, now \in Nows : GetHotspotRanking(top_k, now)
    \/ \E text \in SimilarTexts, top_k \in TopKs :
           FindSimilarReports(text, top_k)

SpecQuery == InitQuery /\ [][NextQuery]_vars

(* One issue reported again and again: every report has the same text  *)
(* and so joins cluster 0; the reports are stamped ten hours before,   *)
(* one hour before, half an hour before or at the reference time       *)
MaxExampleReports == 5

ExampleTimes == {0, 18, 19, 20}
ExampleNows == {20, 21}

AddExampleReport(report_time) ==
    /\ Len(report_texts) < MaxExampleReports
    /\ \E r \in {add_report(Self, T_a, report_time, report_time)} :
           /\ Becomes(r.self)
           /\ last' = [NoCall EXCEPT !.op = "add_report",
                                     !.text = T_a,
                                     !.report_time = report_time,
                                     !.raised = r.raised,
                                     !.value = r.value]
    /\ UNCHANGED <<twin, webVars>>

NextExample ==
    \/ \E report_time \in ExampleTimes : AddExampleReport(report_time)
    \/ \E now \in ExampleNows : ComputeHeat(0, now)

SpecExample == Init /\ [][NextExample]_vars

---------------------------------------------------------------------------
(* The application (src/routers/web.py): one ranker shared by the       *)
(* requests.  Every handler that calls it is an `async def` coroutine   *)
(* on the one event loop: a coroutine that has started or resumed keeps *)
(* the loop until it awaits or returns.  The calls into the engine are  *)
(* taken one step at a time, so that a report that is stored but not    *)
(* yet assigned, and an engine that is cleared but not yet reloaded,    *)
(* are states of the model.                                             *)

MaxWebReports == 3

(* hotspot_ranker = MunicipalHotspotRanker(): the default threshold 0.6 *)
DefaultThreshold == 600

WebTexts == {T_a, T_b, T_blank}
RequestTimes == {0}
WebRecordSeqs ==
    {<<>>,
     <<[work_content |-> T_a, report_time |-> 0]>>,
     <<[work_content |-> T_a, report_time |-> 0],
       [work_content |-> T_b, report_time |-> 0]>>}
WebProviders ==
    {[fails |-> TRUE, rows |-> <<>>]}
        \cup {[fails |-> FALSE, rows |-> rows] : rows \in WebRecordSeqs}

(* mutant: the handlers run on pool threads, which the interpreter may *)
(* switch between at any point                                         *)
CanRunInThread(r) == TRUE

(* the event loop resumes a coroutine only when no other holds the loop *)
CanRun(r) == running = NoRequest \/ running = r

(* the tuple get_hotspot_ranking builds for an entry (hot_spot.py:259) *)
TupleOf(entry) ==
    <<entry.representative, entry.heat, entry.count, entry.cluster_id>>

(* `issue, count, cluster_id` : the names a handler unpacks a tuple into; *)
(* a tuple of another length raises ValueError                            *)
UnpackNames == <<"issue", "count", "cluster_id">>
UnpackRaises(ranking) ==
    \E k \in 1..Len(ranking) : Len(TupleOf(ranking[k])) # Len(UnpackNames)

(* web.py:134-137: notification["hotspot_ranking"] *)
NotificationRanking(ranking) ==
    [k \in 1..Len(ranking) |->
        [issue |-> TupleOf(ranking[k])[1],
         count |-> TupleOf(ranking[k])[2],
         cluster_id |-> Str(TupleOf(ranking[k])[3])]]

(* web.py:401-461: ranking_result; severityLevel is looked up in the *)
(* database and is not part of the engine's answer                   *)
RankingResult(ranking) ==
    [k \in 1..Len(ranking) |->
        [rank |-> (k - 1) + 1,
         issue |-> TupleOf(ranking[k])[1],
         count |-> TupleOf(ranking[k])[2],
         cluster_id |-> TupleOf(ranking[k])[3]]]

(* the except clause of a handler: JSONResponse(..., status_code=500) *)
ErrorResponse == [NoResponse EXCEPT !.status_code = 500]

(* web.py:121-153 of submit_issue, after add_report has returned *)
NotifyAndRespond(self, report_idx, now) ==
    LET Answer(ranking) ==
            IF UnpackRaises(ranking)
            THEN ErrorResponse
            ELSE [NoResponse EXCEPT
                     !.status_code = 200,
                     !.report_idx = report_idx,
                     !.ranking = NotificationRanking(ranking),
                     !.broadcasts = 1]
    IN  Answer(get_hotspot_ranking(self, 10, now))

(* web.py:359-470 of the ranking endpoint, after the reload *)
RankAndRespond(self, top_k, now) ==
    LET Answer(ranking) ==
            IF UnpackRaises(ranking)
            THEN ErrorResponse
            ELSE [NoResponse EXCEPT
                     !.status_code = 200,
                     !.ranking = RankingResult(ranking),
                     !.statistics = get_statistics(self).value]
    IN  Answer(get_hotspot_ranking(self, top_k, now))

(* a step of request r that sends no response *)
Step(r, op) == [NoCall EXCEPT !.op = op, !.request = r]

(* POST /submit-issue/ arrives: the coroutine starts and awaits gen_form *)
(* (web.py:69-74)                                                        *)
SubmitIssue(r, user_content) ==
    /\ requests[r].pc = "idle"
    /\ CanRun(r)
    /\ requests' = [requests EXCEPT ![r] =
                       [Idle EXCEPT !.handler = "submit_issue",
                                    !.pc = "gen_form",
                                    !.user_content = user_content]]
    /\ running' = NoRequest
    /\ last' = Step(r, "submit_issue")
    /\ UNCHANGED <<engineVars, twin>>

(* the coroutine resumes, saves the ticket (web.py:75-111) and calls   *)
(* add_report, which rejects a blank text or stores the report         *)
(* (hot_spot.py:59-65); the ValueError ends the request at web.py:149  *)
SubmitStore(r, now) ==
    /\ requests[r].pc = "gen_form"
    /\ CanRun(r)
    /\ IF IsBlankText(requests[r].user_content)
       THEN /\ requests' = [requests EXCEPT ![r] = Idle]
            /\ running' = NoRequest
            /\ last' = [Step(r, "submit_issue") EXCEPT
                           !.raised = TRUE, !.response = ErrorResponse]
            /\ UNCHANGED engineVars
       ELSE /\ Len(report_texts) < MaxWebReports
            /\ Becomes(StoreReport(Self, Strip(requests[r].user_content), now))
            /\ requests' = [requests EXCEPT
                               ![r].pc = "stored",
                               ![r].report_idx = Len(report_texts)]
            /\ running' = r
            /\ last' = Step(r, "add_report")
    /\ UNCHANGED twin

(* add_report goes on: the stored report is assigned and the space *)
(* rebuilt (hot_spot.py:67-90)                                     *)
SubmitAssign(r) ==
    /\ requests[r].pc = "stored"
    /\ CanRun(r)
    /\ Becomes(AssignReport(Self, requests[r].report_idx,
                            Strip(requests[r].user_content)))
    /\ requests' = [requests EXCEPT ![r].pc = "added"]
    /\ running' = r
    /\ last' = [Step(r, "add_report") EXCEPT
                   !.text = requests[r].user_content,
                   !.value = requests[r].report_idx]
    /\ UNCHANGED twin

(* the rest of submit_issue (web.py:121-153) *)
SubmitNotify(r, now) ==
    /\ requests[r].pc = "added"
    /\ CanRun(r)
    /\ requests' = [requests EXCEPT ![r] = Idle]
    /\ running' = NoRequest
    /\ last' = [Step(r, "submit_issue") EXCEPT
                   !.value = requests[r].report_idx,
                   !.now = now,
                   !.response =
                       NotifyAndRespond(Self, requests[r].report_idx, now)]
    /\ UNCHANGED <<engineVars, twin>>

(* GET /hotspot-ranking/ arrives (web.py:338-355); with refresh the     *)
(* reload runs its query and, unless the query raises, clears the       *)
(* engine (hot_spot.py:318-340)                                         *)
RankingRequest(r, top_k, refresh, provider) ==
    /\ requests[r].pc = "idle"
    /\ CanRun(r)
    /\ IF refresh /\ ~provider.fails
       THEN /\ Becomes(reload_from_database(
                           Self, [fails |-> FALSE, rows |-> <<>>]).self)
            /\ requests' = [requests EXCEPT ![r] =
                   [Idle EXCEPT
                       !.handler = "get_hotspot_ranking",
                       !.pc = IF provider.rows = <<>>
                              THEN "loaded" ELSE "loading",
                       !.top_k = top_k,
                       !.rows = provider.rows]]
       ELSE /\ UNCHANGED engineVars
            /\ requests' = [requests EXCEPT ![r] =
                   [Idle EXCEPT !.handler = "get_hotspot_ranking",
                                !.pc = "loaded",
                                !.top_k = top_k]]
    /\ running' = r
    /\ last' = Step(r, "get_hotspot_ranking")
    /\ UNCHANGED twin

(* the reload replays the next row (hot_spot.py:344-359) *)
RankingLoadRow(r) ==
    /\ requests[r].pc = "loading"
    /\ CanRun(r)
    /\ Becomes(LoadLoop(Self, <<Head(requests[r].rows)>>, 1))
    /\ requests' = [requests EXCEPT
                       ![r].rows = Tail(@),
                       ![r].pc = IF Tail(requests[r].rows) = <<>>
                                 THEN "loaded" ELSE "loading"]
    /\ running' = r
    /\ last' = Step(r, "reload_from_database")
    /\ UNCHANGED twin

(* the rest of the ranking endpoint (web.py:359-470) *)
RankingRespond(r, now) ==
    /\ requests[r].pc = "loaded"
    /\ CanRun(r)
    /\ requests' = [requests EXCEPT ![r] = Idle]
    /\ running' = NoRequest
    /\ last' = [Step(r, "get_hotspot_ranking") EXCEPT
                   !.top_k = requests[r].top_k,
                   !.now = now,
                   !.response = RankAndRespond(Self, requests[r].top_k, now)]
    /\ UNCHANGED <<engineVars, twin>>

InitWeb ==
    /\ InitEngine(DefaultThreshold)
    /\ twin = NewEngine(DefaultThreshold)

NextWeb ==
    \/ \E r \in RequestIds, user_content \in WebTexts :
           SubmitIssue(r, user_content)
    \/ \E r \in RequestIds, now \in RequestTimes : SubmitStore(r, now)
    \/ \E r \in RequestIds : SubmitAssign(r)
    \/ \E r \in RequestIds, now \in RequestTimes : SubmitNotify(r, now)
    \/ \E r \in RequestIds, top_k \in TopKs, refresh \in BOOLEAN,
          provider \in WebProviders :
           RankingRequest(r, top_k, refresh, provider)
    \/ \E r \in RequestIds : RankingLoadRow(r)
    \/ \E r \in RequestIds, now \in RequestTimes : RankingRespond(r, now)

SpecWeb == InitWeb /\ [][NextWeb]_vars

---------------------------------------------------------------------------
(* Properties *)

(* the text of the report with 0-based index i *)
TextOf(i) == report_texts[i + 1]

(* how often report index i occurs in the member lists of all clusters *)
Occurrences(i) ==
    LET places == UNION {{<<k, j>> : j \in 1..Len(clusters[k].reports)} :
                            k \in 1..Len(clusters)}
    IN  Cardinality({p \in places : clusters[p[1]].reports[p[2]] = i})

(* the step is a call of add_report that returned an index *)
AddStep == last'.op = "add_report" /\ ~last'.raised
               /\ Len(report_texts') = Len(report_texts) + 1

(* similarity, in the vector space the engine holds, between a text and *)
(* the representative (first member) of the cluster at position k       *)
SimilarityTo(self, text, k) ==
    CosineSimilarity(Transform(self.vectorizer, text),
                     self.tfidf_matrix.rows[self.clusters[k].reports[1] + 1])

(* the greatest similarity between a text and any cluster representative *)
GreatestSimilarity(self, text) ==
    LET sims == {SimilarityTo(self, text, k) : k \in 1..Len(self.clusters)}
    IN  CHOOSE m \in sims : \A x \in sims : m >= x

(* C1: every report index 0..total_reports-1 occurs in the member list of  *)
(* exactly one cluster, exactly once; member lists hold no other index;    *)
(* and report_cluster_map sends each index to the cluster that lists it.   *)
C1_Partition ==
    LET n == Len(report_texts)
    IN  /\ \A i \in 0..(n - 1) : Occurrences(i) = 1
        /\ \A k \in 1..Len(clusters) :
               \A j \in 1..Len(clusters[k].reports) :
                   clusters[k].reports[j] \in 0..(n - 1)
        /\ DOMAIN report_cluster_map = 0..(n - 1)
        /\ \A i \in 0..(n - 1) :
               \E k \in 1..Len(clusters) :
                   /\ clusters[k].id = report_cluster_map[i]
                   /\ \E j \in 1..Len(clusters[k].reports) :
                          clusters[k].reports[j] = i

(* C1 witness: three reports in two clusters, one of them with two members *)
C1_Witness ==
    /\ Len(report_texts) >= 3
    /\ Len(clusters) >= 2
    /\ \E k \in 1..Len(clusters) : Len(clusters[k].reports) >= 2

(* the call merged the new report into the existing cluster at position k *)
MergedInto(k) ==
    /\ Len(clusters') = Len(clusters)
    /\ clusters'[k].count = clusters[k].count + 1
    /\ \A j \in (1..Len(clusters)) \ {k} : clusters'[j] = clusters[j]

(* the call opened one new cluster with the new report as sole member *)
OpenedCluster(text) ==
    /\ Len(clusters') = Len(clusters) + 1
    /\ \A j \in 1..Len(clusters) : clusters'[j] = clusters[j]
    /\ LET new == clusters'[Len(clusters')]
       IN  /\ new.reports = <<Len(report_texts)>>
           /\ new.count = 1
           /\ new.representative = text

(* C2: on every add_report after the first, if the greatest similarity of  *)
(* the new text to a cluster representative is >= similarity_threshold the *)
(* report joins an existing cluster (its count grows by 1, no cluster is   *)
(* created); otherwise exactly one new cluster is created with the report  *)
(* as sole member and representative.                                      *)
C2_AssignmentRule ==
    [][(AddStep /\ Len(report_texts) >= 1) =>
          LET text == Strip(last'.text)
          IN  IF GreatestSimilarity(Self, text) >= similarity_threshold * Unit
              THEN \E k \in 1..Len(clusters) : MergedInto(k)
              ELSE OpenedCluster(text)]_vars

(* C3: when a report is merged, the chosen cluster's representative has   *)
(* the greatest similarity to the new text among all clusters, and among  *)
(* the clusters sharing that maximum the chosen one has the lowest id.    *)
C3_SelectionRule ==
    [][(AddStep /\ Len(report_texts) >= 1 /\ Len(clusters') = Len(clusters)) =>
          LET text == Strip(last'.text)
              chosen == report_cluster_map'[Len(report_texts)]
              best == GreatestSimilarity(Self, text)
          IN  \E k \in 1..Len(clusters) :
                  /\ clusters[k].id = chosen
                  /\ SimilarityTo(Self, text, k) = best
                  /\ \A j \in 1..Len(clusters) :
                         SimilarityTo(Self, text, j) = best
                             => clusters[j].id >= chosen]_vars

(* the engine as it was before its last report was added, when every     *)
(* report so far came from add_report calls on a fresh engine            *)
RECURSIVE Replayed(_, _, _)
Replayed(self, texts, i) ==
    IF i > Len(texts) THEN self
    ELSE Replayed(add_report(self, texts[i], 0, 0).self, texts, i + 1)

BeforeLast ==
    Replayed(NewEngine(similarity_threshold),
             SubSeq(report_texts, 1, Len(report_texts) - 1), 1)

(* C3 witness: the last report was merged although two clusters tied for *)
(* the greatest similarity                                               *)
C3_Witness ==
    /\ last.op = "add_report" /\ ~last.raised
    /\ Len(report_texts) = 3 /\ Len(clusters) = 2
    /\ Len(BeforeLast.clusters) = 2
    /\ SimilarityTo(BeforeLast, report_texts[3], 1)
           = SimilarityTo(BeforeLast, report_texts[3], 2)
    /\ SimilarityTo(BeforeLast, report_texts[3], 1) > 0
    /\ report_cluster_map[2] = 0

(* C4: a cluster's representative is the text of its founding (first)    *)
(* member, and an add_report call leaves the representative of every     *)
(* existing cluster as it was, also when it adds a member to it.         *)
C4_RepresentativeIsFounder ==
    \A k \in 1..Len(clusters) :
        clusters[k].representative = TextOf(clusters[k].reports[1])

C4_RepresentativeStable ==
    /\ []C4_RepresentativeIsFounder
    /\ [][last'.op = "add_report" =>
             \A k \in 1..Len(clusters) :
                 /\ k <= Len(clusters')
                 /\ clusters'[k].id = clusters[k].id
                 /\ clusters'[k].representative = clusters[k].representative]_vars

(* C4 witness: a cluster holds a later member whose text differs from the *)
(* representative                                                         *)
C4_Witness ==
    \E k \in 1..Len(clusters) :
        /\ Len(clusters[k].reports) >= 2
        /\ TextOf(clusters[k].reports[2]) # clusters[k].representative

(* C5: add_report with an empty or whitespace-only text raises and leaves *)
(* report texts, report times, clusters, the report-to-cluster map, the   *)
(* cluster counter and the vector matrix as they were.                    *)
C5_BlankTextRejected ==
    [][(last'.op = "add_report" /\ IsBlankText(last'.text)) =>
          /\ last'.raised
          /\ UNCHANGED engineVars]_vars

(* C5 witness: a whitespace-only text was rejected by an engine that *)
(* holds reports                                                     *)
C5_Witness ==
    /\ last.op = "add_report"
    /\ last.text = T_blank
    /\ last.raised
    /\ Len(report_texts) >= 1

(* the engine has no reports, no clusters, counter 0 and no matrix *)
IsCleared ==
    /\ report_texts = <<>>
    /\ report_times = <<>>
    /\ report_cluster_map = <<>>
    /\ clusters = <<>>
    /\ cluster_counter = 0
    /\ tfidf_matrix.none

(* C6: whenever the historical-data provider fails during a load, the     *)
(* engine ends with no reports, no clusters, counter 0 and no matrix.     *)
C6_FailedLoadClears ==
    (last.op = "load_from_database" /\ last.provider_failed) => IsCleared

(* C7: whenever the historical-data provider fails during a load, the     *)
(* load reports the failure to its caller instead of returning normally.  *)
C7_FailedLoadSurfaced ==
    (last.op = "load_from_database" /\ last.provider_failed) => last.raised

(* add_report called for each row in order on an engine; a call that *)
(* raises leaves the engine as it was and the next row follows       *)
RECURSIVE ReplayRows(_, _, _)
ReplayRows(self, rows, i) ==
    IF i > Len(rows) THEN self
    ELSE ReplayRows(add_report(self, rows[i].work_content, rows[i].report_time,
                               rows[i].report_time).self,
                    rows, i + 1)

(* C8: after a load over rows R, from any prior state, the reports,      *)
(* timestamps, clusters, report-to-cluster map and cluster counter are   *)
(* those of a freshly constructed engine with the same threshold on      *)
(* which add_report was called for each row of R in order.               *)
C8_ReloadIsReplay ==
    (last.op = "load_from_database" /\ ~last.provider_failed) =>
        LET fresh == ReplayRows(NewEngine(similarity_threshold), last.rows, 1)
        IN  /\ report_texts = fresh.report_texts
            /\ report_times = fresh.report_times
            /\ clusters = fresh.clusters
            /\ report_cluster_map = fresh.report_cluster_map
            /\ cluster_counter = fresh.cluster_counter

(* C8 witness: a load replayed two rows into two clusters *)
C8_Witness ==
    /\ last.op = "load_from_database" /\ ~last.provider_failed
    /\ Len(last.rows) >= 2
    /\ Len(report_texts) = 2
    /\ Len(clusters) = 2

(* C9: a load over the same rows as the load before it leaves the cluster *)
(* structure (ids, representatives, counts, member lists) as it was.      *)
C9_IdempotentReload ==
    [][(/\ last.op = "load_from_database" /\ ~last.provider_failed
        /\ last'.op = "load_from_database" /\ ~last'.provider_failed
        /\ last'.rows = last.rows) => clusters' = clusters]_vars

(* C9 witness: the same rows were loaded twice in a row, into two clusters *)
C9_Witness ==
    /\ last.op = "load_from_database"
    /\ last.repeated
    /\ Len(clusters) >= 2

(* C10: of two engines fed the same add_report calls, the one with the    *)
(* higher similarity_threshold ends with at least as many clusters.       *)
C10_ThresholdMonotone ==
    (/\ similarity_threshold <= twin.similarity_threshold
     /\ report_texts = twin.report_texts)
        => Len(twin.clusters) >= Len(clusters)

(* C10 as amended: the higher threshold gives at least as many clusters   *)
(* after at most three identical add_report calls from empty, and after   *)
(* one identical add_report on two engines that hold the same clusters.   *)
C10_MonotoneUpToThree ==
    (/\ similarity_threshold <= twin.similarity_threshold
     /\ report_texts = twin.report_texts
     /\ Len(report_texts) <= 3)
        => Len(twin.clusters) >= Len(clusters)

C10_MonotoneStep ==
    /\ []C10_MonotoneUpToThree
    /\ [][(/\ similarity_threshold <= twin.similarity_threshold
           /\ report_texts = twin.report_texts
           /\ clusters = twin.clusters)
              => Len(twin.clusters') >= Len(clusters')]_vars

(* C10 witness: after three calls the higher threshold has more clusters *)
C10_Witness ==
    /\ similarity_threshold < twin.similarity_threshold
    /\ Len(report_texts) = 3
    /\ report_texts = twin.report_texts
    /\ Len(twin.clusters) > Len(clusters)

---------------------------------------------------------------------------
(* Heat and ranking *)

HeatCall == last.op = "compute_heat_for_cluster"
RankingCall == last.op = "get_hotspot_ranking"

(* the report indices the map assigns to a cluster, and their timestamps *)
MembersOf(cluster_id) ==
    {i \in DOMAIN report_cluster_map : report_cluster_map[i] = cluster_id}
StampOf(i) == report_times[i + 1]
MinStamp(cluster_id) ==
    CHOOSE t \in {StampOf(i) : i \in MembersOf(cluster_id)} :
        \A i \in MembersOf(cluster_id) : t <= StampOf(i)

Max0(x) == IF x < 0 THEN 0 ELSE x

(* 2.0 * member_count + bonus - decay, floored at 0, in twentieths; *)
(* elapsed is in ticks                                              *)
HeatOf(member_count, recent_count, elapsed) ==
    Max0(2 * HeatUnit * member_count
         + (IF recent_count > 3 THEN (recent_count - 3) * HeatUnit ELSE 0)
         - (elapsed * HeatUnit) \div (10 * TicksPerHour))

(* C11 as stated: for an existing cluster compute_heat returns           *)
(* max(0, 2.0 * member_count + bonus - decay) with decay = 0.1 * (hours  *)
(* elapsed from the minimum member timestamp to now), whatever now is    *)
C11_HeatFormula ==
    (HeatCall /\ MembersOf(last.cluster_id) # {}) =>
        last.heat = HeatOf(Cardinality(MembersOf(last.cluster_id)),
                           last.recent_count,
                           last.now - MinStamp(last.cluster_id))

(* C11 amended: the hours elapsed count as 0 when now lies before the *)
(* minimum member timestamp                                           *)
C11_HeatFormulaFloored ==
    (HeatCall /\ MembersOf(last.cluster_id) # {}) =>
        last.heat = HeatOf(Cardinality(MembersOf(last.cluster_id)),
                           last.recent_count,
                           Max0(last.now - MinStamp(last.cluster_id)))

(* a heat was computed with a bonus and a decay that both count *)
C11_Witness ==
    /\ HeatCall
    /\ MembersOf(last.cluster_id) # {}
    /\ last.recent_count > 3
    /\ last.now > MinStamp(last.cluster_id)
    /\ last.heat > 0

(* C12: recent_count counts exactly the members stamped inside          *)
(* [now - 1h, now]; members stamped after now are not counted           *)
C12_ConcentrationWindow ==
    (HeatCall /\ MembersOf(last.cluster_id) # {}) =>
        last.recent_count =
            Cardinality({i \in MembersOf(last.cluster_id) :
                            /\ last.now - TicksPerHour <= StampOf(i)
                            /\ StampOf(i) <= last.now})

(* C13: compute_heat returns a value >= 0 for every cluster id, existing *)
(* or not, and every now                                                 *)
C13_HeatNonNegative == HeatCall => last.heat >= 0

(* the decay of an existing cluster exceeded its score and bonus *)
C13_Witness ==
    /\ HeatCall
    /\ MembersOf(last.cluster_id) # {}
    /\ 2 * HeatUnit * Cardinality(MembersOf(last.cluster_id))
           + (IF last.recent_count > 3
              THEN (last.recent_count - 3) * HeatUnit ELSE 0)
         < ((last.now - MinStamp(last.cluster_id)) * HeatUnit)
               \div (10 * TicksPerHour)
    /\ last.heat = 0

RankedIds == {last.ranking[k].cluster_id : k \in 1..Len(last.ranking)}
C15_RankingContent ==
    RankingCall =>
        /\ \A k \in 1..Len(last.ranking) :
               \E c \in 1..Len(clusters) :
                   /\ last.ranking[k].cluster_id = clusters[c].id
                   /\ last.ranking[k].representative = clusters[c].representative
                   /\ last.ranking[k].count
                          = Cardinality(MembersOf(clusters[c].id))
                   /\ last.ranking[k].heat
                          = compute_heat_for_cluster(Self, clusters[c].id, last.now)
        /\ Cardinality(RankedIds) = Len(last.ranking)
        /\ \A c \in 1..Len(clusters) :
               clusters[c].id \notin RankedIds =>
                   \A k \in 1..Len(last.ranking) :
                       compute_heat_for_cluster(Self, clusters[c].id, last.now)
                           <= last.ranking[k].heat
        /\ last.top_k >= Len(clusters) =>
               RankedIds = {clusters[c].id : c \in 1..Len(clusters)}

(* the ranking kept the hotter of two clusters and left out the first *)
C15_Witness ==
    /\ RankingCall
    /\ Len(clusters) = 2
    /\ Len(last.ranking) = 1
    /\ last.ranking[1].cluster_id = 1
    /\ last.ranking[1].heat > compute_heat_for_cluster(Self, 0, last.now)

---------------------------------------------------------------------------
(* Similar reports *)

SimilarCall == last.op = "find_similar_reports"

(* the similarity of the query of the last call to report i *)
QuerySimilarity(i) ==
    CosineSimilarity(Transform(vectorizer, last.text), tfidf_matrix.rows[i + 1])

(* the reports whose similarity to the query reaches the threshold *)
Qualifying ==
    IF tfidf_matrix.none THEN {}
    ELSE {i \in 0..(Len(report_texts) - 1) :
             QuerySimilarity(i) >= similarity_threshold * Unit}

Min(a, b) == IF a <= b THEN a ELSE b

(* C19: find_similar_reports(text, top_k) returns the reports with       *)
(* similarity >= threshold, ordered by similarity descending, cut to    *)
(* top_k: min(top_k, number qualifying) entries, each a distinct        *)
(* qualifying report with its similarity, none below the threshold, and *)
(* no qualifying report left out is more similar than a returned one    *)
C19_SimilarReports ==
    (SimilarCall /\ ~last.raised) =>
        /\ Len(last.similar) = Min(last.top_k, Cardinality(Qualifying))
        /\ \A k \in 1..Len(last.similar) :
               last.similar[k].similarity >= similarity_threshold * Unit
        /\ \A k \in 1..(Len(last.similar) - 1) :
               last.similar[k].similarity >= last.similar[k + 1].similarity
        /\ \E f \in [1..Len(last.similar) -> Qualifying] :
               /\ \A j, k \in 1..Len(last.similar) : j # k => f[j] # f[k]
               /\ \A k \in 1..Len(last.similar) :
                      /\ last.similar[k].report = report_texts[f[k] + 1]
                      /\ last.similar[k].similarity = QuerySimilarity(f[k])
               /\ \A i \in Qualifying :
                      (\A k \in 1..Len(last.similar) : f[k] # i) =>
                          \A k \in 1..Len(last.similar) :
                              QuerySimilarity(i) <= last.similar[k].similarity

(* a query left out a report below the threshold and cut the rest to top_k *)
C19_Witness ==
    /\ SimilarCall
    /\ Len(last.similar) >= 1
    /\ Len(last.similar) < Cardinality(Qualifying)
    /\ Cardinality(Qualifying) < Len(report_texts)

(* C20: on an engine holding no reports, new or cleared by a load of  *)
(* zero records, find_similar_reports and get_hotspot_ranking return  *)
(* an empty sequence and do not raise                                 *)
C20_EmptyCorpusQueries ==
    report_texts = <<>> =>
        /\ SimilarCall => ~last.raised /\ last.similar = <<>>
        /\ RankingCall => ~last.raised /\ last.ranking = <<>>

(* a query on an engine that held reports and was cleared by a load: the *)
(* load leaves the vectorizer fitted                                    *)
C20_Witness ==
    /\ report_texts = <<>>
    /\ vectorizer.fitted
    /\ SimilarCall
    /\ last.similar = <<>>

---------------------------------------------------------------------------
(* Matching against representatives *)

(* similarity, in the vector space the engine holds, between a text and *)
(* the report with 0-based index i                                      *)
SimilarityToReport(self, text, i) ==
    CosineSimilarity(Transform(self.vectorizer, text),
                     self.tfidf_matrix.rows[i + 1])

(* C18: the decision of add_report rests on the similarities to the     *)
(* cluster representatives only: when every representative is below the *)
(* threshold the report opens a new cluster, whatever its similarity to *)
(* other members, and a report joins a cluster only if that cluster's   *)
(* representative reaches the threshold                                 *)
C18_RepresentativeOnly ==
    [][(AddStep /\ Len(report_texts) >= 1) =>
          LET text == Strip(last'.text)
          IN  /\ (\A k \in 1..Len(clusters) :
                      SimilarityTo(Self, text, k) < similarity_threshold * Unit)
                     => OpenedCluster(text)
              /\ \A k \in 1..Len(clusters) :
                     (Len(clusters') = Len(clusters)
                      /\ report_cluster_map'[Len(report_texts)] = clusters[k].id)
                     => SimilarityTo(Self, text, k)
                            >= similarity_threshold * Unit]_vars

(* the last report opened a cluster of its own although it reached the  *)
(* threshold against the second member of the only cluster there was    *)
C18_Witness ==
    /\ last.op = "add_report" /\ ~last.raised
    /\ Len(report_texts) = 3 /\ Len(clusters) = 2
    /\ report_cluster_map[2] = 1
    /\ Len(BeforeLast.clusters) = 1
    /\ SimilarityTo(BeforeLast, report_texts[3], 1)
           < similarity_threshold * Unit
    /\ SimilarityToReport(BeforeLast, report_texts[3], 1)
           >= similarity_threshold * Unit

---------------------------------------------------------------------------
(* A transform that raises *)

(* the step is a call of add_report in which transform raised *)
MissStep == last'.op = "add_report" /\ last'.transform_raised

(* the engine with the new text stored and the vector space rebuilt over *)
(* the whole corpus, before any cluster is chosen                        *)
RebuiltWith(text) ==
    _rebuild_vectorizer([Self EXCEPT !.report_texts = Append(@, text)])

(* C16: when projecting the new text fails during add_report, the call  *)
(* does not raise, the report is appended, it opens a new cluster of    *)
(* its own, and the vector space is rebuilt over the whole corpus       *)
(* before the call returns                                              *)
C16_MissIsNoMatch ==
    [][MissStep =>
          LET text == Strip(last'.text)
          IN  /\ ~last'.raised
              /\ last'.value = Len(report_texts)
              /\ report_texts' = Append(report_texts, text)
              /\ OpenedCluster(text)
              /\ vectorizer' = Fit(report_texts')
              /\ tfidf_matrix'
                     = Matrix(TransformAll(Fit(report_texts'), report_texts'))]_vars

(* transform raised on a text equal to the only representative there was *)
C16_Witness ==
    /\ last.op = "add_report" /\ last.transform_raised
    /\ Len(report_texts) = 2
    /\ report_texts[1] = report_texts[2]
    /\ Len(clusters) = 2

(* C17 as stated: when projecting fails, the vector space is rebuilt and *)
(* the comparison made once more, so a report that reaches the threshold *)
(* against some representative after the rebuild joins that cluster      *)
C17_MissIsRetried ==
    [][MissStep =>
          LET text == Strip(last'.text)
          IN  (\E k \in 1..Len(clusters) :
                   SimilarityTo(RebuiltWith(text), text, k)
                       >= similarity_threshold * Unit)
                  => \E k \in 1..Len(clusters) :
                         /\ MergedInto(k)
                         /\ SimilarityTo(RebuiltWith(text), text, k)
                                >= similarity_threshold * Unit]_vars

(* C17 amended: no second comparison is made; the report gets a cluster *)
(* id no cluster had, and every cluster there was keeps its members     *)
C17_MissIsNotRetried ==
    [][MissStep =>
          /\ Len(clusters') = Len(clusters) + 1
          /\ report_cluster_map'[Len(report_texts)] = cluster_counter
          /\ \A k \in 1..Len(clusters) :
                 /\ clusters[k].id # cluster_counter
                 /\ clusters'[k].reports = clusters[k].reports]_vars

(* transform raised on a text that reaches the threshold against a      *)
(* representative in the rebuilt space, and the text got its own cluster *)
C17_Witness ==
    /\ last.op = "add_report" /\ last.transform_raised
    /\ Len(report_texts) = 3
    /\ Len(clusters) >= 2
    /\ report_cluster_map[2] = clusters[Len(clusters)].id
    /\ clusters[Len(clusters)].reports = <<2>>
    /\ similarity_threshold > 0
    /\ \E k \in 1..(Len(clusters) - 1) :
           SimilarityTo(Self, report_texts[3], k) >= similarity_threshold * Unit

(* the sum of the count fields of the clusters from position k on *)
RECURSIVE CountsFrom(_, _)
CountsFrom(cs, k) ==
    IF k > Len(cs) THEN 0 ELSE cs[k].count + CountsFrom(cs, k + 1)

(* C21: in every reachable state each cluster's count equals the length  *)
(* of its member list, every cluster has at least one member, and the    *)
(* counts of all clusters add up to the number of reports held.          *)
C21_ClusterCounts ==
    /\ \A k \in 1..Len(clusters) :
           /\ clusters[k].count = Len(clusters[k].reports)
           /\ Len(clusters[k].reports) >= 1
    /\ CountsFrom(clusters, 1) = Len(report_texts)

(* C21 witness: add_report has just merged a report, and the engine holds *)
(* a cluster of two members beside a cluster of one                       *)
C21_Witness ==
    /\ last.op = "add_report" /\ ~last.raised
    /\ Len(clusters) = 2
    /\ \E k \in 1..2, j \in 1..2 :
           /\ clusters[k].count = 2
           /\ clusters[j].count = 1
           /\ report_cluster_map[Len(report_texts) - 1] = clusters[k].id

(* the step is a call of add_report that returned normally *)
AddReturned == last'.op = "add_report" /\ ~last'.raised

(* the text t without its leading and trailing whitespace: the slice of t *)
(* that has only whitespace before and after it and none at its two ends  *)
Trimmed(t) ==
    CHOOSE s \in {SubSeq(t, i, j) : i \in 1..(Len(t) + 1), j \in 0..Len(t)} :
        \E i \in 1..(Len(t) + 1), j \in 0..Len(t) :
            /\ s = SubSeq(t, i, j)
            /\ \A p \in 1..Len(t) : (p < i \/ p > j) => t[p] = " "
            /\ s # <<>> => (s[1] # " " /\ s[Len(s)] # " ")

C23_VectorSpaceCoversCorpus ==
    [][AddReturned =>
          /\ ~tfidf_matrix'.none
          /\ Len(tfidf_matrix'.rows) = Len(report_texts')
          /\ vectorizer' = Fit(report_texts')
          /\ tfidf_matrix'.rows = TransformAll(vectorizer', report_texts')]_vars

(* C23 witness: the third report brought a term the space did not have, *)
(* and the space now has it and a row for each of the three reports     *)
C23_Witness ==
    /\ last.op = "add_report" /\ ~last.raised
    /\ Len(report_texts) = 3
    /\ Len(tfidf_matrix.rows) = 3
    /\ ~Contains(Fit(SubSeq(report_texts, 1, 2)).vocabulary, report_texts[3])
    /\ Contains(vectorizer.vocabulary, report_texts[3])

(* the last call was get_statistics *)
StatisticsCall == last.op = "get_statistics"

(* C24: get_statistics returns without raising; total_reports is the    *)
(* number of reports held, total_clusters the number of clusters, and   *)
(* avg_reports_per_cluster their quotient, which is 0 when there are no *)
(* clusters.                                                            *)
C24_Statistics ==
    StatisticsCall =>
        /\ ~last.raised
        /\ last.statistics.total_reports = Len(report_texts)
        /\ last.statistics.total_clusters = Len(clusters)
        /\ IF Len(clusters) = 0
           THEN last.statistics.avg_reports_per_cluster = 0
           ELSE last.statistics.avg_reports_per_cluster * Len(clusters)
                    = Len(report_texts) * StatUnit

(* C24 witness: three reports in two clusters, an average of one and a *)
(* half                                                                *)
C24_Witness ==
    /\ StatisticsCall
    /\ last.statistics.total_reports = 3
    /\ last.statistics.total_clusters = 2
    /\ 2 * last.statistics.avg_reports_per_cluster = 3 * StatUnit

(* the members of a cluster stamped inside [now - 1h, now], and those *)
(* stamped exactly the given number of hours before now               *)
StampedWithinHour(cluster_id, now) ==
    {i \in MembersOf(cluster_id) :
        StampOf(i) >= now - TicksPerHour /\ StampOf(i) <= now}
StampedHoursBefore(cluster_id, now, hours) ==
    {i \in MembersOf(cluster_id) : StampOf(i) = now - hours * TicksPerHour}

(* the last call asked for the heat of a cluster of five members, four *)
(* of them stamped within the hour before now and one ten hours before *)
ExampleCall ==
    /\ HeatCall
    /\ Cardinality(MembersOf(last.cluster_id)) = 5
    /\ Cardinality(StampedWithinHour(last.cluster_id, last.now)) = 4
    /\ Cardinality(StampedHoursBefore(last.cluster_id, last.now, 10)) = 1

(* C25: for a cluster of 5 members, 4 stamped within the last hour      *)
(* before now and 1 stamped 10 hours before now, compute_heat has       *)
(* report_score 10, recent_count 4 and bonus 1, decay 1, and returns 10 *)
C25_WorkedExample ==
    ExampleCall =>
        /\ 2 * HeatUnit * Len(ReportIndices(Self, last.cluster_id))
               = 10 * HeatUnit
        /\ last.recent_count = 4
        /\ ConcentratedBonus(last.recent_count) = 1 * HeatUnit
        /\ TimeDecay(Self, last.cluster_id, last.now) = 1 * HeatUnit
        /\ last.heat = 10 * HeatUnit

(* C25 witness: the example with the old report added last and one of *)
(* the recent ones stamped exactly one hour before now                *)
C25_Witness ==
    /\ ExampleCall
    /\ last.heat = 10 * HeatUnit
    /\ report_times[5] = last.now - 10 * TicksPerHour
    /\ \E i \in 1..4 : report_times[i] = last.now - TicksPerHour

QueryOps ==
    {"find_similar_reports", "get_clusters", "get_cluster_reports",
     "get_hotspot_ranking", "compute_heat_for_cluster", "get_statistics"}

(* the engine that add_report calls alone build from the texts held *)
AddsAlone == Replayed(NewEngine(similarity_threshold), report_texts, 1)

(* C30: a call of find_similar_reports, get_clusters,                   *)
(* get_cluster_reports, get_hotspot_ranking, compute_heat_for_cluster   *)
(* or get_statistics leaves report texts, report times, clusters, the   *)
(* report-to-cluster map, the cluster counter and the similarity        *)
(* threshold as they were; and whatever queries ran in between, the     *)
(* clustering is always the one the add_report calls alone produce.     *)
C30_QueriesReadOnly ==
    /\ [][last'.op \in QueryOps =>
             /\ report_texts' = report_texts
             /\ report_times' = report_times
             /\ clusters' = clusters
             /\ report_cluster_map' = report_cluster_map
             /\ cluster_counter' = cluster_counter
             /\ similarity_threshold' = similarity_threshold]_vars
    /\ [](/\ clusters = AddsAlone.clusters
          /\ report_cluster_map = AddsAlone.report_cluster_map
          /\ cluster_counter = AddsAlone.cluster_counter)

(* C30 witness: get_clusters has just listed two clusters, the second *)
(* founded by the third report                                        *)
C30_Witness ==
    /\ last.op = "get_clusters"
    /\ Len(last.cluster_items) = 2
    /\ last.cluster_items[2].key = <<"1">>
    /\ Len(last.cluster_items[1].reports) = 2
    /\ Len(report_texts) = 3

(* request q is inside an engine mutation: its report is stored but not *)
(* yet assigned, or its reload has cleared the engine and has rows left *)
MidMutation(q) == requests[q].pc \in {"stored", "loading"}

(* the step is one of request r that calls, or goes on inside, the engine *)
EngineCallBy(r) ==
    /\ requests'[r] # requests[r]
    /\ requests'[r].pc # "gen_form"

(* C26: for the requests that share the ranker, every engine mutation   *)
(* (add_report of submit_issue, the reload of the ranking endpoint)     *)
(* runs to completion before an engine call of another request begins:  *)
(* no step of a request calls the engine while another request is       *)
(* inside a mutation, and a request inside a mutation holds the event   *)
(* loop.                                                                *)
C26_NoInterleavedMutation ==
    /\ [][\A r \in RequestIds :
             EngineCallBy(r) =>
                 \A q \in RequestIds \ {r} : ~MidMutation(q)]_vars
    /\ [](\A q \in RequestIds : MidMutation(q) => running = q)

(* C26 witness: one request has stored its report and not yet assigned *)
(* it, while another request is in flight, waiting at its await        *)
C26_Witness ==
    \E r \in RequestIds, q \in RequestIds :
        /\ r # q
        /\ requests[r].pc = "stored"
        /\ Len(report_texts) > Cardinality(DOMAIN report_cluster_map)
        /\ requests[q].pc = "gen_form"

(* the step is the one in which the ranking endpoint answers request r *)
RankingResponded(r) ==
    requests[r].pc = "loaded" /\ requests'[r].pc = "idle"

(* C27: whenever the ranker holds at least one cluster, the ranking      *)
(* endpoint answers with a success response whose ranking list has one   *)
(* entry per tuple of the engine's get_hotspot_ranking(top_k), in the    *)
(* same order, with rank = position + 1 and that tuple's issue text,     *)
(* count and cluster id, together with the engine statistics; it does    *)
(* not answer with an error response.                                    *)
C27_RankingEndpoint ==
    [][\A r \in RequestIds :
          (RankingResponded(r) /\ Len(clusters) >= 1) =>
              LET ranking ==
                      get_hotspot_ranking(Self, requests[r].top_k, last'.now)
                  response == last'.response
              IN  /\ response.status_code = 200
                  /\ Len(response.ranking) = Len(ranking)
                  /\ \A k \in 1..Len(ranking) :
                         /\ response.ranking[k].rank = k
                         /\ response.ranking[k].issue
                                = ranking[k].representative
                         /\ response.ranking[k].count = ranking[k].count
                         /\ response.ranking[k].cluster_id
                                = ranking[k].cluster_id
                  /\ response.statistics = get_statistics(Self).value]_vars

(* the step is the one in which submit_issue answers request r, whose *)
(* add_report call has returned                                       *)
SubmitResponded(r) ==
    requests[r].pc = "added" /\ requests'[r].pc = "idle"

====
